---------------------------- MODULE Spec2Model ----------------------------
(***************************************************************************)
(* Model of src/Mod/Draft/draftgeoutils/faces.py: the face utilities       *)
(* getBoundary, isCoplanar, bind, cleanFaces and removeSplitter.           *)
(*                                                                         *)
(* Kernel objects are represented by what the module reads from them:      *)
(*   an Edge   is its hashCode();                                          *)
(*   a  Face   is a record [hc, Edges, normal] (hashCode(), the face's     *)
(*             edge list, the value of normalAt);                          *)
(*   a  Wire   is a record [id, closed, diag] (isClosed(),                 *)
(*             BoundBox.DiagonalLength);                                   *)
(*   a  vertex is its height along the reference normal.                   *)
(* Kernel constructors that can raise Part.OCCError are nondeterministic.  *)
(***************************************************************************)
EXTENDS Integers, Sequences, FiniteSets, TLC

VARIABLES
    pc,            \* position of the running call
    faceset,       \* shape.Faces of the input shape (cleanFaces, getBoundary, removeSplitter)
    lut,           \* cleanFaces: edge hash -> list of owning face hashes (insertion ordered)
    sharedhedges,  \* cleanFaces: edges owned by exactly two faces
    targethedges,  \* cleanFaces: shared edges whose two owners have equal normals
    hfaces,        \* cleanFaces: worklist of target faces not yet in an island
    islands,       \* cleanFaces: list of islands, each a list of face hashes
    currentisle,   \* cleanFaces: index (from 0) of the island being grown
    currentface,   \* cleanFaces: index (from 0) of the member being examined
    found,         \* cleanFaces: flag of the clustering loop
    isleIdx,       \* cleanFaces: number of islands already rebuilt
    newfaces,      \* cleanFaces: the face list handed to Part.makeShell
    treated,       \* cleanFaces: hashes of the faces that were merged
    result,        \* value returned (or exception raised) by the call
    edges,         \* removeSplitter: the edges selected to build the wire
    result2,       \* value returned by the second call (removeSplitter, swapped bind)
    w1, w2,        \* bind: the two wires
    cfaces,        \* isCoplanar: the list of faces, each a list of vertex heights
    tolerance      \* isCoplanar: the tolerance

vars == <<pc, faceset, lut, sharedhedges, targethedges, hfaces, islands,
          currentisle, currentface, found, isleIdx, newfaces, treated,
          result, edges, result2, w1, w2, cfaces, tolerance>>

cleanVars == <<lut, sharedhedges, targethedges, hfaces, islands,
               currentisle, currentface, found, isleIdx, newfaces, treated>>
bindVars == <<edges, result2, w1, w2>>
coplanarVars == <<cfaces, tolerance>>

---------------------------------------------------------------------------
(* Bounds of the model *)
MaxFaces == 4
MaxEdge == 3
MaxFaceEdges == 2
NumNormals == 2
MaxDiag == 3
MaxCFaces == 3
MaxVertexes == 2
MaxHeight == 2
MaxTolerance == 1

EdgeKeys == 1..MaxEdge
Normals == 1..NumNormals

(* values of variables a call does not use *)
NoResult == "NoResult"
NoWire == "NoWire"
EmptyLut == [keys |-> <<>>, owners |-> <<>>]

Range(s) == {s[i] : i \in DOMAIN s}

IsDupFree(s) == \A i, j \in DOMAIN s : i # j => s[i] # s[j]

IsAscending(s) == \A i, j \in DOMAIN s : i < j => s[i] < s[j]

(* The edge lists a face can have: Face.Edges never lists an edge twice;  *)
(* the lists are taken in ascending order of hash code.                    *)
EdgeLists ==
    UNION {{s \in [1..n -> EdgeKeys] : IsAscending(s)} : n \in 1..MaxFaceEdges}

(* A shape with the given edge lists and normals: face i has hash code i. *)
MakeFaces(es, ns) ==
    [i \in DOMAIN es |-> [hc |-> i, Edges |-> es[i], normal |-> ns[i]]]

---------------------------------------------------------------------------
(* list.pop that always removes the first element *)
PopFirst(s, i) == Tail(s)

(* list.pop(i) with i counted from 0: the list without that element *)
PopAt(s, i) == [k \in 1..(Len(s) - 1) |-> IF k <= i THEN s[k] ELSE s[k + 1]]

(* list.extend *)
Extend(s, t) == s \o t

(* cleanFaces.find: the first face of faceset with the given hash code *)
find(hc) == faceset[CHOOSE i \in DOMAIN faceset :
                       /\ faceset[i].hc = hc
                       /\ \A j \in 1..(i - 1) : faceset[j].hc # hc]

(* the (edge, face) pairs in the order the nested loops over              *)
(* faceset / face.Edges visit them                                         *)
RECURSIVE EdgeVisits(_)
EdgeVisits(faces) ==
    IF faces = <<>> THEN <<>>
    ELSE [k \in DOMAIN Head(faces).Edges |->
             [edge |-> Head(faces).Edges[k], face |-> Head(faces).hc]]
         \o EdgeVisits(Tail(faces))

(* one pass of the lookup-table loop body of cleanFaces *)
LutInsert(l, e, f) ==
    IF e \in DOMAIN l.owners
    THEN [l EXCEPT !.owners[e] = Append(@, f)]
    ELSE [keys |-> Append(l.keys, e), owners |-> l.owners @@ (e :> <<f>>)]

RECURSIVE LutFold(_, _)
LutFold(l, visits) ==
    IF visits = <<>> THEN l
    ELSE LutFold(LutInsert(l, Head(visits).edge, Head(visits).face), Tail(visits))

(* cleanFaces: build lookup table *)
BuildLut(faces) == LutFold(EmptyLut, EdgeVisits(faces))

(* cleanFaces: take edges shared by 2 faces *)
SharedHEdges(l) == SelectSeq(l.keys, LAMBDA k : Len(l.owners[k]) = 2)

(* cleanFaces: find those with same normals *)
SameNormals(l, hedge) ==
    find(l.owners[hedge][1]).normal = find(l.owners[hedge][2]).normal

TargetHEdges(l, shared) == SelectSeq(shared, LAMBDA hedge : SameNormals(l, hedge))

(* cleanFaces: get target faces *)
RECURSIVE AppendNew(_, _)
AppendNew(acc, fs) ==
    IF fs = <<>> THEN acc
    ELSE AppendNew(IF Head(fs) \in Range(acc) THEN acc ELSE Append(acc, Head(fs)),
                   Tail(fs))

RECURSIVE TargetFaces(_, _, _)
TargetFaces(acc, l, hedges) ==
    IF hedges = <<>> THEN acc
    ELSE TargetFaces(AppendNew(acc, l.owners[Head(hedges)]), l, Tail(hedges))

(* cleanFaces.findNeighbour: <<i>> for the first index i (from 0) of      *)
(* hfacelist whose face has an edge in common with hface, <<>> for None    *)
findNeighbour(hface, hfacelist) ==
    LET eset == Range(find(hface).Edges)
        hits == {i \in DOMAIN hfacelist :
                    Range(find(hfacelist[i]).Edges) \cap eset # {}}
    IN  IF hits = {} THEN <<>>
        ELSE <<(CHOOSE i \in hits : \A j \in hits : i <= j) - 1>>

---------------------------------------------------------------------------
(* getBoundary *)

(* shape.Edges of the kernel: every edge of the shape once, an edge shared *)
(* by several faces being listed a single time                             *)
RECURSIVE Dedup(_, _)
Dedup(acc, s) ==
    IF s = <<>> THEN acc
    ELSE Dedup(IF Head(s) \in Range(acc) THEN acc ELSE Append(acc, Head(s)), Tail(s))

ShapeEdges(faces) ==
    Dedup(<<>>, [k \in DOMAIN EdgeVisits(faces) |-> EdgeVisits(faces)[k].edge])

(* one pass of the counting loop body of getBoundary *)
TableInsert(table, hash_code) ==
    IF hash_code \in DOMAIN table
    THEN [table EXCEPT ![hash_code] = table[hash_code] + 1]
    ELSE table @@ (hash_code :> 1)

RECURSIVE TableFold(_, _)
TableFold(table, visits) ==
    IF visits = <<>> THEN table
    ELSE TableFold(TableInsert(table, Head(visits).edge), Tail(visits))

(* getBoundary: the lookup table of occurrences of each edge *)
BoundaryTable(faces) == TableFold(<<>>, EdgeVisits(faces))

(* line 75 keeping the edges that occur at most twice *)
IsBoundaryEdgeOrShared(table, e) == table[e] <= 2

(* getBoundary: filter out the edges shared by more than one sub-face *)
IsBoundaryEdge(table, e) == table[e] = 1

getBoundary(faces) ==
    LET table == BoundaryTable(faces)
    IN  SelectSeq(ShapeEdges(faces), LAMBDA e : IsBoundaryEdge(table, e))

---------------------------------------------------------------------------
(* cleanFaces *)

FaceHashes == {faceset[i].hc : i \in DOMAIN faceset}

(* hash code of the face the kernel builds for island number k (from 1):  *)
(* a new object, different from every input face                           *)
NewFaceHash(k) == Len(faceset) + k

(* lines 148-179: lookup table, shared edges, target edges, target faces *)
BuildTables ==
    /\ pc = "cleanFaces"
    /\ LET l == BuildLut(faceset)
           shared == SharedHEdges(l)
           target == TargetHEdges(l, shared)
       IN  /\ lut' = l
           /\ sharedhedges' = shared
           /\ targethedges' = target
           /\ hfaces' = TargetFaces(<<>>, l, target)
    /\ pc' = "islands"
    /\ UNCHANGED <<faceset, islands, currentisle, currentface, found, isleIdx,
                   newfaces, treated, result, bindVars, coplanarVars>>

(* line 183-186: islands = [[hfaces.pop(0)]]; pop from an empty list      *)
(* raises IndexError, which cleanFaces does not catch                      *)
StartIslands ==
    /\ pc = "islands"
    /\ IF hfaces = <<>>
       THEN /\ pc' = "raised"
            /\ result' = "IndexError"
            /\ UNCHANGED <<hfaces, islands, currentisle, currentface, found>>
       ELSE /\ islands' = <<<<hfaces[1]>>>>
            /\ hfaces' = PopAt(hfaces, 0)
            /\ currentisle' = 0
            /\ currentface' = 0
            /\ found' = TRUE
            /\ pc' = "cluster"
            /\ UNCHANGED result
    /\ UNCHANGED <<faceset, lut, sharedhedges, targethedges, isleIdx,
                   newfaces, treated, bindVars, coplanarVars>>

(* line 189 with an off-by-one comparison *)
HasNextMemberOffByOne == Len(islands[currentisle + 1]) >= (currentface + 1)

(* line 189: the current island has a member after the current face *)
HasNextMember == Len(islands[currentisle + 1]) > (currentface + 1)

(* the statement executed when the loop is in its "not found" state *)
AdvanceOrNewIsland ==
    IF HasNextMember
    THEN /\ currentface' = currentface + 1
         /\ found' = TRUE
         /\ UNCHANGED <<islands, hfaces, currentisle>>
    ELSE /\ islands' = Append(islands, <<hfaces[1]>>)
         /\ hfaces' = PopAt(hfaces, 0)
         /\ currentisle' = currentisle + 1
         /\ currentface' = 0
         /\ found' = TRUE

(* the statement executed when the loop is in its "found" state *)
GrowIsland ==
    LET f == findNeighbour(islands[currentisle + 1][currentface + 1], hfaces)
    IN  IF f # <<>>
        THEN /\ islands' = [islands EXCEPT
                               ![currentisle + 1] = Append(@, hfaces[f[1] + 1])]
             /\ hfaces' = PopAt(hfaces, f[1])
             /\ UNCHANGED <<currentisle, currentface, found>>
        ELSE /\ found' = FALSE
             /\ UNCHANGED <<islands, hfaces, currentisle, currentface>>

(* lines 187-202: one iteration of "while hfaces" *)
ClusterStep ==
    /\ pc = "cluster"
    /\ hfaces # <<>>
    /\ IF ~found THEN AdvanceOrNewIsland ELSE GrowIsland
    /\ UNCHANGED <<pc, faceset, lut, sharedhedges, targethedges, isleIdx,
                   newfaces, treated, result, bindVars, coplanarVars>>

(* lines 187, 206-207: the loop condition fails; newfaces = [], treated = [] *)
ClusterExit ==
    /\ pc = "cluster"
    /\ hfaces = <<>>
    /\ pc' = "rebuild"
    /\ isleIdx' = 0
    /\ newfaces' = <<>>
    /\ treated' = <<>>
    /\ UNCHANGED <<faceset, lut, sharedhedges, targethedges, hfaces, islands,
                   currentisle, currentface, found, result, bindVars, coplanarVars>>

(* lines 210-212: fset, the faces of an island *)
IslandFaces(isle) == [k \in DOMAIN isle |-> find(isle[k])]

(* lines 213-218: the face rebuilt from an island; the kernel builds it   *)
(* with normal n, and it is reversed when n differs from the normal of    *)
(* the island's first face                                                 *)
RebuiltFace(isle, k, n) ==
    LET bounds == getBoundary(IslandFaces(isle))
        shp == [hc |-> NewFaceHash(k), Edges |-> bounds, normal |-> n]
    IN  IF shp.normal # find(isle[1]).normal
        THEN [shp EXCEPT !.normal = 0 - shp.normal]
        ELSE shp

(* lines 208-218: one iteration of "for isle in islands"; Part.Wire and   *)
(* Part.Face may raise Part.OCCError, which cleanFaces does not catch      *)
RebuildIsland ==
    /\ pc = "rebuild"
    /\ isleIdx < Len(islands)
    /\ LET isle == islands[isleIdx + 1]
           n0 == find(isle[1]).normal
       IN  \E ok \in BOOLEAN, n \in {n0, 0 - n0} :
              IF ok
              THEN /\ treated' = Extend(treated, isle)
                   /\ newfaces' = Append(newfaces, RebuiltFace(isle, isleIdx + 1, n))
                   /\ isleIdx' = isleIdx + 1
                   /\ UNCHANGED <<pc, result>>
              ELSE /\ treated' = Extend(treated, isle)
                   /\ pc' = "raised"
                   /\ result' = "OCCError"
                   /\ UNCHANGED <<newfaces, isleIdx>>
    /\ UNCHANGED <<faceset, lut, sharedhedges, targethedges, hfaces, islands,
                   currentisle, currentface, found, bindVars, coplanarVars>>

(* lines 222-224 without the test on treated *)
RemainingFacesUnfiltered(faces, done) == faces

(* lines 222-224: the faces whose hash is not in treated, in faceset order *)
RemainingFaces(faces, done) == SelectSeq(faces, LAMBDA f : ~(f.hc \in Range(done)))

AddRemaining ==
    /\ pc = "rebuild"
    /\ isleIdx = Len(islands)
    /\ newfaces' = newfaces \o RemainingFaces(faceset, treated)
    /\ pc' = "assemble"
    /\ UNCHANGED <<faceset, lut, sharedhedges, targethedges, hfaces, islands,
                   currentisle, currentface, found, isleIdx, treated, result,
                   bindVars, coplanarVars>>

(* lines 228-231: makeShell, and makeSolid when shape.isClosed() *)
MakeShell ==
    /\ pc = "assemble"
    /\ \E closed \in BOOLEAN :
          result' = [kind |-> IF closed THEN "Solid" ELSE "Shell",
                     Faces |-> newfaces]
    /\ pc' = "done"
    /\ UNCHANGED <<faceset, cleanVars, bindVars, coplanarVars>>

InitClean ==
    /\ pc = "cleanFaces"
    /\ \E n \in 1..MaxFaces :
          \E es \in [1..n -> EdgeLists], ns \in [1..n -> Normals] :
             faceset = MakeFaces(es, ns)
    /\ lut = EmptyLut
    /\ sharedhedges = <<>>
    /\ targethedges = <<>>
    /\ hfaces = <<>>
    /\ islands = <<>>
    /\ currentisle = 0
    /\ currentface = 0
    /\ found = TRUE
    /\ isleIdx = 0
    /\ newfaces = <<>>
    /\ treated = <<>>
    /\ result = NoResult
    /\ edges = <<>>
    /\ result2 = NoResult
    /\ w1 = NoWire
    /\ w2 = NoWire
    /\ cfaces = <<>>
    /\ tolerance = 0

NextClean ==
    \/ BuildTables
    \/ StartIslands
    \/ ClusterStep
    \/ ClusterExit
    \/ RebuildIsland
    \/ AddRemaining
    \/ MakeShell

SpecClean == InitClean /\ [][NextClean]_vars

---------------------------------------------------------------------------
(* Properties of cleanFaces *)

(* the faces that own a target edge *)
TargetFaceSet == UNION {Range(lut.owners[e]) : e \in Range(targethedges)}

(* the faces that are a member of some island *)
IslandMembers == UNION {Range(islands[k]) : k \in DOMAIN islands}

(* two faces own a common target edge *)
TargetLinked(f, g) ==
    \E e \in Range(targethedges) : {f, g} \subseteq Range(lut.owners[e])

(* the target faces connected to a face of S through a chain of target edges *)
RECURSIVE TargetComponent(_)
TargetComponent(S) ==
    LET N == S \cup {g \in TargetFaceSet : \E f \in S : TargetLinked(f, g)}
    IN  IF N = S THEN S ELSE TargetComponent(N)

SameIsland(f, g) == \E k \in DOMAIN islands : {f, g} \subseteq Range(islands[k])

ClusteringDone == pc \in {"rebuild", "assemble", "done"}

(* C1: when the clustering loop has finished, two target faces are in the *)
(* same island if and only if a chain of target edges connects them.       *)
C1_IslandsAreTargetComponents ==
    ClusteringDone =>
        \A f, g \in TargetFaceSet :
            SameIsland(f, g) <=> (g \in TargetComponent({f}))

(* C2: on a shape without target edges cleanFaces raises nothing, finds   *)
(* no island and returns a shell or solid of exactly the input faces.      *)
C2_NoTargetEdgesIsNoOp ==
    (pc # "cleanFaces" /\ targethedges = <<>>) =>
        /\ pc # "raised"
        /\ pc = "done" => (islands = <<>> /\ result.Faces = faceset)

(* C7: in the face list handed to shell assembly every face outside the   *)
(* islands (a face that owns no target edge) occurs exactly once and       *)
(* unchanged, no island member occurs as itself, each island contributes   *)
(* one rebuilt face, and the length is islands + faces outside islands.    *)
C7_FinalFaceList ==
    pc \in {"assemble", "done"} =>
        LET outside == {i \in DOMAIN faceset : faceset[i].hc \notin IslandMembers}
            rebuilt == {k \in DOMAIN newfaces : newfaces[k].hc \notin FaceHashes}
        IN  /\ \A i \in DOMAIN faceset :
                  (i \in outside) <=>
                      (Range(faceset[i].Edges) \cap Range(targethedges) = {})
            /\ \A i \in outside :
                  Cardinality({k \in DOMAIN newfaces : newfaces[k] = faceset[i]}) = 1
            /\ \A i \in DOMAIN faceset \ outside :
                  \A k \in DOMAIN newfaces : newfaces[k].hc # faceset[i].hc
            /\ Cardinality(rebuilt) = Len(islands)
            /\ Len(newfaces) = Len(islands) + Cardinality(outside)

C7_Witness ==
    /\ pc = "done"
    /\ \E k \in DOMAIN islands : Len(islands[k]) >= 3
    /\ \E i \in DOMAIN faceset : faceset[i].hc \notin IslandMembers
    /\ Len(result.Faces) = 2

(* the indices of the clustering loop refer to an existing island and to  *)
(* an existing member of it                                                *)
IndicesInRange ==
    /\ (currentisle + 1) \in DOMAIN islands
    /\ (currentface + 1) \in DOMAIN islands[currentisle + 1]

(* a quantity every iteration of the clustering loop decreases *)
ClusterMeasure ==
    3 * Len(hfaces)
    + 2 * (Len(islands[currentisle + 1]) - currentface)
    + (IF found THEN 1 ELSE 0)

(* C9: at every iteration of the clustering loop the indices are in       *)
(* range and the measure, at most three times the number of target faces,  *)
(* decreases; so the worklist is empty after at most that many iterations. *)
C9_ClusteringTerminates ==
    [][pc = "cluster" =>
          /\ IndicesInRange
          /\ ClusterMeasure <= 3 * Cardinality(TargetFaceSet)
          /\ ClusterMeasure >= 0
          /\ pc' = "cluster" =>
                /\ IndicesInRange'
                /\ ClusterMeasure' < ClusterMeasure]_vars

C9_Witness ==
    /\ pc = "cluster"
    /\ hfaces = <<>>
    /\ Len(islands) >= 2
    /\ Len(islands[2]) >= 2

(* the members of all islands followed by the worklist *)
RECURSIVE Flatten(_)
Flatten(ss) == IF ss = <<>> THEN <<>> ELSE Head(ss) \o Flatten(Tail(ss))

(* C10: from the start of the clustering loop on, islands and worklist    *)
(* partition the target faces: each target face occurs exactly once in     *)
(* the islands and the worklist together, and no island is empty; after    *)
(* the loop the worklist is empty.                                         *)
C10_IslandsPartitionTargets ==
    (pc = "cluster" \/ ClusteringDone) =>
        LET all == Flatten(islands) \o hfaces
        IN  /\ IsDupFree(all)
            /\ Range(all) = TargetFaceSet
            /\ \A k \in DOMAIN islands : islands[k] # <<>>
            /\ ClusteringDone => hfaces = <<>>

C10_Witness ==
    /\ pc = "cluster"
    /\ Len(islands) >= 2
    /\ Len(islands[1]) >= 2
    /\ hfaces # <<>>

---------------------------------------------------------------------------
(* removeSplitter *)

(* lines 243-247: one pass of the lookup loop body *)
LookupInsert(lookup, h, e) ==
    IF h \in DOMAIN lookup.owners
    THEN [lookup EXCEPT !.owners[h] = Append(@, e)]
    ELSE [keys |-> Append(lookup.keys, h), owners |-> lookup.owners @@ (h :> <<e>>)]

RECURSIVE LookupFold(_, _)
LookupFold(lookup, visits) ==
    IF visits = <<>> THEN lookup
    ELSE LookupFold(LookupInsert(lookup, Head(visits).edge, Head(visits).edge),
                    Tail(visits))

(* line 249 selecting the edges with at most two owners *)
HasOneOwnerOrTwo(e) == Len(e) <= 2

(* line 249: the condition of the comprehension *)
HasOneOwner(e) == Len(e) = 1

(* line 249: edges = [e[0] for e in lookup.values() if len(e) == 1] *)
SplitterEdges(faces) ==
    LET lookup == LookupFold(EmptyLut, EdgeVisits(faces))
        kept == SelectSeq(lookup.keys, LAMBDA h : HasOneOwner(lookup.owners[h]))
    IN  [k \in DOMAIN kept |-> lookup.owners[kept[k]][1]]

(* lines 251-260: the value returned for the three outcomes of the kernel *)
removeSplitterResult(es, outcome) ==
    IF outcome = "OCCError" THEN [kind |-> "None", Edges |-> <<>>]
    ELSE IF outcome = "valid" THEN [kind |-> "Face", Edges |-> es]
    ELSE [kind |-> "None", Edges |-> <<>>]

(* a call of getBoundary on the shape *)
CallGetBoundary ==
    /\ pc = "getBoundary"
    /\ result' = getBoundary(faceset)
    /\ pc' = "removeSplitter"
    /\ UNCHANGED <<faceset, cleanVars, bindVars, coplanarVars>>

(* a call of removeSplitter on the same shape *)
CallRemoveSplitter ==
    /\ pc = "removeSplitter"
    /\ edges' = SplitterEdges(faceset)
    /\ \E outcome \in {"valid", "invalid", "OCCError"} :
          result2' = removeSplitterResult(edges', outcome)
    /\ pc' = "done"
    /\ UNCHANGED <<faceset, cleanVars, result, w1, w2, coplanarVars>>

InitBoundary ==
    /\ pc = "getBoundary"
    /\ \E n \in 1..MaxFaces :
          \E es \in [1..n -> EdgeLists], ns \in [1..n -> Normals] :
             faceset = MakeFaces(es, ns)
    /\ lut = EmptyLut
    /\ sharedhedges = <<>>
    /\ targethedges = <<>>
    /\ hfaces = <<>>
    /\ islands = <<>>
    /\ currentisle = 0
    /\ currentface = 0
    /\ found = TRUE
    /\ isleIdx = 0
    /\ newfaces = <<>>
    /\ treated = <<>>
    /\ result = <<>>
    /\ edges = <<>>
    /\ result2 = NoResult
    /\ w1 = NoWire
    /\ w2 = NoWire
    /\ cfaces = <<>>
    /\ tolerance = 0

NextBoundary ==
    \/ CallGetBoundary
    \/ CallRemoveSplitter

SpecBoundary == InitBoundary /\ [][NextBoundary]_vars

(* number of places where edge e occurs in the per-face edge lists *)
Occurrences(e) ==
    Cardinality({p \in (DOMAIN faceset) \X (1..MaxFaceEdges) :
                    /\ p[2] \in DOMAIN faceset[p[1]].Edges
                    /\ faceset[p[1]].Edges[p[2]] = e})

(* position of an edge in the shape's own edge list *)
ShapePosition(e) ==
    CHOOSE k \in DOMAIN ShapeEdges(faceset) : ShapeEdges(faceset)[k] = e

(* C5: getBoundary returns exactly the edges that occur once in the       *)
(* per-face edge lists, each once, in the order of the shape's edge list;  *)
(* without shared edges that is the whole edge list of the shape, and for  *)
(* a single face it is the face's own edge list.                           *)
C5_BoundaryIsEdgesOccurringOnce ==
    pc \in {"removeSplitter", "done"} =>
        /\ Range(result) = {e \in EdgeKeys : Occurrences(e) = 1}
        /\ IsDupFree(result)
        /\ \A i, j \in DOMAIN result :
              i < j => ShapePosition(result[i]) < ShapePosition(result[j])
        /\ (\A e \in EdgeKeys : Occurrences(e) <= 1) => result = ShapeEdges(faceset)
        /\ Len(faceset) = 1 => result = faceset[1].Edges

C5_Witness ==
    /\ pc = "removeSplitter"
    /\ Len(result) >= 1
    /\ \E e \in EdgeKeys : Occurrences(e) = 2
    /\ \E e \in EdgeKeys : Occurrences(e) >= 3

(* C8: the edges removeSplitter selects for its wire are, as a set, the   *)
(* edges getBoundary returns for the same shape.                           *)
C8_SplitterEdgesAreBoundary ==
    pc = "done" => Range(edges) = Range(result)

C8_Witness ==
    /\ pc = "done"
    /\ edges # <<>>
    /\ \E e \in EdgeKeys : Occurrences(e) = 2 /\ e \notin Range(edges)
    /\ result2.kind = "Face"

---------------------------------------------------------------------------
(* bind *)

(* the wires a caller can pass as argument number id: a null (falsy)      *)
(* value, or a wire with its isClosed() and BoundBox.DiagonalLength        *)
WireArgs(id) ==
    {[id |-> id, null |-> TRUE, closed |-> FALSE, diag |-> 0]}
    \cup {[id |-> id, null |-> FALSE, closed |-> c, diag |-> d] :
             c \in BOOLEAN, d \in 1..MaxDiag}

(* the kernel constructors bind calls; "none" when every one succeeds *)
KernelSteps == {"none", "LineSegment", "Wire", "Face"}

(* lines 102-103: return None before any kernel constructor is called *)
ReturnNone == [kind |-> "None", outer |-> 0, inner |-> 0, kernel |-> FALSE]

(* line 108 with a non-strict comparison *)
FirstIsOuterOrEqual(d1, d2) == d1 >= d2

(* line 108: d1 > d2 *)
FirstIsOuter(d1, d2) == d1 > d2

(* lines 110, 113: Part.Face([outer, inner]), outside any try block *)
FaceOfTwoWires(outer, inner, failing) ==
    IF failing = "Face"
    THEN [kind |-> "OCCError", outer |-> 0, inner |-> 0, kernel |-> TRUE]
    ELSE [kind |-> "Face", outer |-> outer.id, inner |-> inner.id, kernel |-> TRUE]

(* lines 115-123: the bridged face, Part.OCCError being caught *)
BridgedFace(a, b, failing) ==
    IF failing \in {"LineSegment", "Wire", "Face"}
    THEN [kind |-> "None", outer |-> 0, inner |-> 0, kernel |-> TRUE]
    ELSE [kind |-> "Face", outer |-> a.id, inner |-> b.id, kernel |-> TRUE]

(* lines 99-123: bind(a, b) when the kernel step named failing raises *)
bind(a, b, failing) ==
    IF a.null \/ b.null THEN ReturnNone
    ELSE IF a.closed /\ b.closed
         THEN LET d1 == a.diag
                  d2 == b.diag
              IN  IF FirstIsOuter(d1, d2)
                  THEN FaceOfTwoWires(a, b, failing)
                  ELSE FaceOfTwoWires(b, a, failing)
         ELSE BridgedFace(a, b, failing)

(* the call bind(w1, w2) *)
CallBind ==
    /\ pc = "bind"
    /\ \E failing \in KernelSteps : result' = bind(w1, w2, failing)
    /\ pc' = "bindSwapped"
    /\ UNCHANGED <<faceset, cleanVars, edges, result2, w1, w2, coplanarVars>>

(* the call bind(w2, w1) on the same two wires *)
CallBindSwapped ==
    /\ pc = "bindSwapped"
    /\ \E failing \in KernelSteps : result2' = bind(w2, w1, failing)
    /\ pc' = "done"
    /\ UNCHANGED <<faceset, cleanVars, edges, result, w1, w2, coplanarVars>>

InitBind ==
    /\ pc = "bind"
    /\ w1 \in WireArgs(1)
    /\ w2 \in WireArgs(2)
    /\ result = ReturnNone
    /\ result2 = ReturnNone
    /\ faceset = <<>>
    /\ lut = EmptyLut
    /\ sharedhedges = <<>>
    /\ targethedges = <<>>
    /\ hfaces = <<>>
    /\ islands = <<>>
    /\ currentisle = 0
    /\ currentface = 0
    /\ found = TRUE
    /\ isleIdx = 0
    /\ newfaces = <<>>
    /\ treated = <<>>
    /\ edges = <<>>
    /\ cfaces = <<>>
    /\ tolerance = 0

NextBind ==
    \/ CallBind
    \/ CallBindSwapped

SpecBind == InitBind /\ [][NextBind]_vars

(* C3: bind returns a Face or None and raises nothing; it returns None    *)
(* without a kernel call when a wire is null.                              *)
C3_BindNeverRaises ==
    /\ pc # "bind" =>
          /\ result.kind \in {"Face", "None"}
          /\ (w1.null \/ w2.null) => (result.kind = "None" /\ ~result.kernel)
    /\ pc = "done" =>
          /\ result2.kind \in {"Face", "None"}
          /\ (w1.null \/ w2.null) => (result2.kind = "None" /\ ~result2.kernel)

BothClosed == ~w1.null /\ ~w2.null /\ w1.closed /\ w2.closed

(* C4: for two closed wires the outer wire of the face is w1 exactly when *)
(* w1's diagonal is strictly greater, and w2 otherwise; with different     *)
(* diagonals bind(w1, w2) and bind(w2, w1) choose the same outer and the   *)
(* same inner wire.                                                        *)
C4_OuterByDiagonal ==
    /\ (pc # "bind" /\ BothClosed /\ result.kind = "Face") =>
          /\ (result.outer = w1.id) <=> (w1.diag > w2.diag)
          /\ (result.outer = w2.id) <=> ~(w1.diag > w2.diag)
          /\ {result.outer, result.inner} = {w1.id, w2.id}
    /\ (pc = "done" /\ BothClosed /\ w1.diag # w2.diag
        /\ result.kind = "Face" /\ result2.kind = "Face") =>
          /\ result.outer = result2.outer
          /\ result.inner = result2.inner

C4_Witness ==
    /\ pc = "done"
    /\ BothClosed
    /\ w1.diag < w2.diag
    /\ result.kind = "Face"
    /\ result2.kind = "Face"
    /\ result.outer = w2.id

---------------------------------------------------------------------------
(* isCoplanar, for faces whose reference normal is along Z: a vertex is   *)
(* its height, a whole number                                              *)

(* the vertex lists a face can have *)
VertexLists == UNION {[1..n -> 0..MaxHeight] : n \in 1..MaxVertexes}

(* draftgeoutils.general.precision(): the number of decimals *)
precision == 6

RECURSIVE Pow10(_)
Pow10(n) == IF n = 0 THEN 1 ELSE 10 * Pow10(n - 1)

(* round(x, ndigits) of a whole number x >= 0: x scaled by 10^ndigits,    *)
(* rounded to the nearest integer and scaled back                          *)
round(x, ndigits) ==
    LET scaled == x * Pow10(ndigits)
    IN  ((2 * scaled + 1) \div 2) \div Pow10(ndigits)

(* DraftVecUtils.project(chord, base).Length for base along Z: the        *)
(* absolute value of the chord's height                                    *)
ProjectedLength(chord) == IF chord < 0 THEN 0 - chord ELSE chord

(* line 94 with a non-strict comparison *)
DeviatesOrEqual(v, origin, tol) ==
    round(ProjectedLength(v - origin), precision) >= tol

(* lines 92-94: the test made on one vertex *)
Deviates(v, origin, tol) ==
    round(ProjectedLength(v - origin), precision) > tol

(* lines 85-96 *)
isCoplanar(faces, tol) ==
    IF Len(faces) < 2 THEN TRUE
    ELSE ~ \E i \in 2..Len(faces) :
              \E k \in DOMAIN faces[i] : Deviates(faces[i][k], faces[1][1], tol)

CallIsCoplanar ==
    /\ pc = "isCoplanar"
    /\ result' = isCoplanar(cfaces, tolerance)
    /\ pc' = "done"
    /\ UNCHANGED <<faceset, cleanVars, bindVars, coplanarVars>>

InitCoplanar ==
    /\ pc = "isCoplanar"
    /\ \E n \in 0..MaxCFaces : cfaces \in [1..n -> VertexLists]
    /\ tolerance \in 0..MaxTolerance
    /\ result = FALSE
    /\ faceset = <<>>
    /\ lut = EmptyLut
    /\ sharedhedges = <<>>
    /\ targethedges = <<>>
    /\ hfaces = <<>>
    /\ islands = <<>>
    /\ currentisle = 0
    /\ currentface = 0
    /\ found = TRUE
    /\ isleIdx = 0
    /\ newfaces = <<>>
    /\ treated = <<>>
    /\ edges = <<>>
    /\ result2 = NoResult
    /\ w1 = NoWire
    /\ w2 = NoWire

NextCoplanar == CallIsCoplanar

SpecCoplanar == InitCoplanar /\ [][NextCoplanar]_vars

(* every vertex of the list is in the plane z = 0 *)
AllInPlaneZero == \A i \in DOMAIN cfaces : \A k \in DOMAIN cfaces[i] : cfaces[i][k] = 0

(* some vertex of the list is in the plane z = 0 *)
SomeInPlaneZero == \E i \in DOMAIN cfaces : \E k \in DOMAIN cfaces[i] : cfaces[i][k] = 0

(* the vertices farther than the tolerance from the plane z = 0 *)
OffPlane ==
    {p \in (DOMAIN cfaces) \X (1..MaxVertexes) :
        /\ p[2] \in DOMAIN cfaces[p[1]]
        /\ cfaces[p[1]][p[2]] > tolerance}

(* C6: isCoplanar is true for tolerance 0 when every vertex is in the     *)
(* plane z = 0, and false whenever some vertex of some face of the list,   *)
(* the first face included, is farther than the tolerance from that plane  *)
(* while another vertex is in it.                                          *)
C6_AnyVertexOffPlaneGivesFalse ==
    pc = "done" =>
        /\ (AllInPlaneZero /\ tolerance = 0) => result = TRUE
        /\ (OffPlane # {} /\ SomeInPlaneZero) => result = FALSE

(* the vertices of the faces after the first that are farther than the    *)
(* tolerance from the height of the first vertex of the first face         *)
OffReference ==
    {p \in (DOMAIN cfaces) \X (1..MaxVertexes) :
        /\ p[1] >= 2
        /\ p[2] \in DOMAIN cfaces[p[1]]
        /\ \/ cfaces[p[1]][p[2]] - cfaces[1][1] > tolerance
           \/ cfaces[1][1] - cfaces[p[1]][p[2]] > tolerance}

(* C6 as amended: isCoplanar is true for tolerance 0 when every vertex is *)
(* in the plane z = 0; it is false exactly when the list has two faces or  *)
(* more and some vertex of a face after the first is farther than the      *)
(* tolerance from the first vertex of the first face.                      *)
C6_OtherFaceVertexOffReferenceGivesFalse ==
    pc = "done" =>
        /\ (AllInPlaneZero /\ tolerance = 0) => result = TRUE
        /\ (result = FALSE) <=> (Len(cfaces) >= 2 /\ OffReference # {})

C6_Witness ==
    /\ pc = "done"
    /\ Len(cfaces) >= 2
    /\ Cardinality(OffPlane) = 1
    /\ \E p \in OffPlane : p[1] >= 2
    /\ tolerance = 1
    /\ result = FALSE

===========================================================================
